---- MODULE Spec2Model ----
(***************************************************************************)
(* Model of flexlock's durable task queue (flexlock/taskdb.py) and of the  *)
(* worker loop that drains it (flexlock/worker.py).                        *)
(*                                                                         *)
(* The store is one SQLite table `tasks`; a row is a record with the       *)
(* columns of the CREATE TABLE statement.  Rows are kept in rowid          *)
(* (insertion) order, the order in which SQLite scans the table.           *)
(* Every process owns one cached connection (_conn); Python's sqlite3      *)
(* opens an implicit transaction before INSERT/UPDATE, which holds the     *)
(* WAL write lock until commit(), rollback or the end of the process.      *)
(***************************************************************************)
EXTENDS Bags, Integers, Sequences, FiniteSets, TLC

(***************************************************************************)
(* Bounds of the model.                                                    *)
(***************************************************************************)
MaxRows == 2        \* distinct task_ids the enqueued lists may add up to
MaxClock == 2       \* CURRENT_TIMESTAMP takes the values 1..MaxClock
MaxArray == 3       \* slurm_array_parallelism takes the values 1..MaxArray
MaxWorld == 2       \* the world size of a job takes the values 1..MaxWorld
MaxRuns == 2        \* run() is called until it has submitted jobs MaxRuns times
MaxTracked == 3     \* track_task is called at most MaxTracked times

Workers == {"w1", "w2"}
\* HOSTNAME in the environment of a worker process: not set (or empty), or
\* the name of the host the process is started on.  Every process has its
\* own environment.
Hostnames == {"", "node7"}
HostEnvs == [Workers -> Hostnames]
Enqueuers == {"e1", "e2"}
NoProc == "none"

(***************************************************************************)
(* Python values.  A value is a record: `type` is the Python type, `text`  *)
(* the characters of a scalar (the digits of an int, the characters of a   *)
(* str), `items` the (key, value) pairs of a dict in insertion order; the  *)
(* values of a dict are ints, held as their digits.                        *)
(***************************************************************************)
PyNone == [type |-> "none", text |-> "None", items |-> <<>>]
PyInt(d) == [type |-> "int", text |-> d, items |-> <<>>]
PyStr(s) == [type |-> "str", text |-> s, items |-> <<>>]
PyDict(kvs) == [type |-> "dict", text |-> "", items |-> kvs]
Item(k, d) == [key |-> k, val |-> d]

StrA == PyStr("a")
Str1 == PyStr("1")
Int1 == PyInt("1")
Int5 == PyInt("5")
DictXY == PyDict(<<Item("x", "1"), Item("y", "2")>>)
DictYX == PyDict(<<Item("y", "2"), Item("x", "1")>>)

\* The task lists handed to queue_tasks.
TaskLists ==
    { <<Int1, Str1, StrA, Int1>>,
      <<DictYX, DictXY>>,
      <<StrA, DictYX>>,
      <<PyNone, StrA>> }

\* What the user function returns, and the messages of what it raises.
ResultValues == {PyNone, Int5}
ErrMsgs == {"boom", ""}

\* Every value the model serializes or deserializes.
PyValues == {PyNone, StrA, Str1, Int1, Int5, DictXY, DictYX}

\* SQL NULL in a TEXT column, and in a DATETIME column.
NULL == "<NULL>"
NullTs == 0

(***************************************************************************)
(* str(task): a dict prints its items in insertion order, an int and a str *)
(* print their characters.                                                 *)
(***************************************************************************)
RECURSIVE ReprItems(_)
ReprItems(items) ==
    IF items = <<>> THEN ""
    ELSE "'" \o Head(items).key \o "': " \o Head(items).val
         \o (IF Len(items) > 1 THEN ", " ELSE "")
         \o ReprItems(Tail(items))

Str(v) ==
    IF v.type = "dict" THEN "{" \o ReprItems(v.items) \o "}" ELSE v.text

\* hashlib.sha1(...).hexdigest(): collision-free, the digest is named by
\* the text it was computed from.
Sha1Hex(s) == "sha1(" \o s \o ")"

_hash_task(task) == Sha1Hex(Str(task))

(***************************************************************************)
(* yaml.dump / yaml.safe_load.  Emit writes a value in block style in the  *)
(* order of its items; yaml.dump sorts the keys of a mapping first         *)
(* (sort_keys=True is its default); yaml.safe_load reads a document back,  *)
(* the keys of a mapping in document order.                                *)
(***************************************************************************)
KeyOrder == <<"x", "y">>

RECURSIVE SortFrom(_, _)
SortFrom(items, j) ==
    IF j > Len(KeyOrder) THEN <<>>
    ELSE SelectSeq(items, LAMBDA it : it.key = KeyOrder[j]) \o SortFrom(items, j + 1)

SortKeys(v) == [v EXCEPT !.items = SortFrom(v.items, 1)]

\* A str that a plain scalar would resolve to another type is quoted.
NeedsQuote(text) == text \in {"1", "2", "5", "null", "true", "false", "~", ""}

RECURSIVE EmitItems(_)
EmitItems(items) ==
    IF items = <<>> THEN ""
    ELSE Head(items).key \o ": " \o Head(items).val \o "\n" \o EmitItems(Tail(items))

Emit(v) ==
    CASE v.type = "dict" -> IF v.items = <<>> THEN "{}\n" ELSE EmitItems(v.items)
      [] v.type = "none" -> "null\n...\n"
      [] v.type = "int" -> v.text \o "\n...\n"
      [] OTHER -> IF NeedsQuote(v.text) THEN "'" \o v.text \o "'\n"
                  ELSE v.text \o "\n...\n"

yaml_dump(v) == Emit(SortKeys(v))

yaml_safe_load(doc) == CHOOSE v \in PyValues : Emit(v) = doc

(***************************************************************************)
(* The state.                                                              *)
(***************************************************************************)
VARIABLES
    rows,      \* the tasks table, in rowid order
    now,       \* the last CURRENT_TIMESTAMP a statement read (whole seconds)
    wlock,     \* the process whose open transaction holds the write lock
    pc,        \* where each worker is in worker_loop
    task,      \* worker_loop's local `task`
    out,       \* what the user function did for the task in hand
    held,      \* history: task_id of the row the worker's claim returned
    claimed,   \* history: task_id -> number of claim_next_task calls that returned it
    ran,       \* history: task_id -> what the user function did for it
    enqueued,  \* history: the task lists queue_tasks has been called with
    requeued,  \* history: a queue_tasks call found a stored row already claimed
    xp,        \* the process calling dump_to_yaml: where it is, and its local `data`
    fs,        \* the directory of the result file: file name -> contents
    ex,        \* the ParallelExecutor object, its run() call and its done files
    sb,        \* a scheduler backend: its submit / map_array call and the scheduler's job
    tk,        \* track_task: the tasks table of the snapshot, its .tasks file, the callers
    hostname   \* the HOSTNAME variable in the environment of each worker process

vars == <<rows, now, wlock, pc, task, out, held, claimed, ran, enqueued, requeued,
          xp, fs, ex, sb, tk, hostname>>

NoOut == [kind |-> "none", result |-> PyNone, error |-> NULL]

\* The result file dump_to_yaml is asked to write, and the name mkstemp makes
\* up for the temporary file next to it; a name with no file maps to Absent.
Absent == "<absent>"
ResultPath == "run.lock.tasks"

\* Variant: the data is written straight into the file at `path`.
OpenTarget(path) == path

mkstemp(path) == "." \o path \o ".tmp-"

FileNames == {ResultPath, mkstemp(ResultPath)}

\* No dump_to_yaml call is under way; `last` is the data the last finished
\* call wrote (history), `written` tells that there was one.
XpIdle(last, written) ==
    [pc |-> "idle", data |-> <<>>, pos |-> 0, last |-> last, written |-> written]

\* No ParallelExecutor has been constructed yet.
NoExecutor ==
    [pc |-> "new", tasks |-> <<>>, n_jobs |-> 1, undone |-> <<>>, job |-> <<>>,
     done |-> {}, done_dir |-> FALSE, failed_before |-> {}, save_dir |-> FALSE,
     missing |-> "none", done_before |-> {}, mode |-> "local",
     array_parallelism |-> 1, world_size |-> 1, chunks |-> <<>>, prog |-> <<>>,
     cli_calls |-> <<>>, scan |-> 0, kept |-> <<>>, submitted |-> 0,
     earlier |-> EmptyBag, debug_enabled |-> FALSE]

\* The threads or processes that call track_task on one snapshot path.
Trackers == {"t1", "t2"}

\* No task tracked yet: the table is empty and there is no .tasks file.
NoTracking ==
    [table |-> <<>>, file |-> Absent,
     p |-> [t \in Trackers |-> [pc |-> "idle", snap |-> <<>>, tmp |-> Absent]]]

\* A backend object on which neither submit nor map_array has been called.
NoSubmission ==
    [pc |-> "idle", kind |-> "none", op |-> "none", data |-> <<>>, is_list |-> FALSE,
     array_size |-> 0, submissions |-> 0, job_id |-> NULL, handles |-> <<>>,
     executed |-> <<>>]

Init ==
    /\ rows = <<>>
    /\ now = 1
    /\ wlock = NoProc
    /\ pc = [w \in Workers |-> "claim"]
    /\ task = [w \in Workers |-> PyNone]
    /\ out = [w \in Workers |-> NoOut]
    /\ held = [w \in Workers |-> NULL]
    /\ claimed = [id \in {} |-> 0]
    /\ ran = [id \in {} |-> NoOut]
    /\ enqueued = {}
    /\ requeued = FALSE
    /\ xp = XpIdle(<<>>, FALSE)
    /\ fs = [n \in FileNames |-> Absent]
    /\ ex = NoExecutor
    /\ sb = NoSubmission
    /\ tk = NoTracking
    /\ hostname \in HostEnvs

\* The specifications that start no worker process: HOSTNAME is read by
\* none of their steps.
InitNoWorker == Init /\ hostname = [w \in Workers |-> ""]

\* The worker pool of the liveness specification runs on one named host.
InitLive == Init /\ hostname = [w \in Workers |-> "node7"]

\* One worker started without HOSTNAME and the others on a named host: the
\* node column then tells the workers apart, and both values of NodeOf are
\* stored.
InitTwoHosts ==
    Init /\ hostname = [w \in Workers |-> IF w = "w1" THEN "" ELSE "node7"]

TaskIds(rs) == {rs[i].task_id : i \in DOMAIN rs}

\* The write lock is free for process p (it is free, or p's own open
\* transaction holds it); otherwise p waits in SQLite's busy handler.
CanWrite(p) == wlock \in {NoProc, p}

\* CURRENT_TIMESTAMP when a statement runs: the time of the last statement
\* or later (the clock is read in whole seconds and never goes back).
Clock == now..MaxClock

(***************************************************************************)
(* queue_tasks: INSERT OR IGNORE of (task_id, task_info) for each task,    *)
(* the other columns at their defaults, then commit.                       *)
(***************************************************************************)
NewRow(t) ==
    [task_id |-> _hash_task(t), task_info |-> yaml_dump(t), result_info |-> NULL,
     status |-> "pending", node |-> NULL, error |-> NULL,
     ts_start |-> NullTs, ts_end |-> NullTs]

\* Variant: INSERT OR REPLACE, which deletes the stored row and inserts a fresh one.
InsertOrReplace(rs, t) ==
    Append(SelectSeq(rs, LAMBDA r : r.task_id # _hash_task(t)), NewRow(t))

\* Variant: the insert is skipped only while the stored row is still pending.
InsertUnlessPending(rs, t) ==
    IF \E i \in DOMAIN rs : rs[i].task_id = _hash_task(t) /\ rs[i].status = "pending"
    THEN rs ELSE Append(rs, NewRow(t))

InsertOrIgnore(rs, t) ==
    IF _hash_task(t) \in TaskIds(rs) THEN rs ELSE Append(rs, NewRow(t))

RECURSIVE QueueTasks(_, _)
QueueTasks(rs, ts) ==
    IF ts = <<>> THEN rs
    ELSE QueueTasks(InsertOrIgnore(rs, Head(ts)), Tail(ts))

\* The rows whose task_id one of the tasks hashes to.
Existing(rs, ts) ==
    {i \in DOMAIN rs : \E k \in DOMAIN ts : rs[i].task_id = _hash_task(ts[k])}

Enqueue(e, ts) ==
    /\ CanWrite(e)
    /\ Cardinality(TaskIds(rows) \cup {_hash_task(ts[k]) : k \in DOMAIN ts}) <= MaxRows
    /\ rows' = QueueTasks(rows, ts)
    /\ wlock' = NoProc
    /\ enqueued' = enqueued \cup {ts}
    /\ requeued' = (requeued \/ \E i \in Existing(rows, ts) : rows[i].status # "pending")
    /\ UNCHANGED <<now, pc, task, out, held, claimed, ran>>
    /\ UNCHANGED <<xp, fs, ex, sb, tk, hostname>>

(***************************************************************************)
(* claim_next_task: UPDATE ... WHERE task_id = (SELECT task_id FROM tasks  *)
(* WHERE status='pending' LIMIT 1) RETURNING task_info.  The subquery      *)
(* scans the table in rowid order.  commit() is called only when a row     *)
(* came back; with no row the implicit transaction stays open.             *)
(***************************************************************************)
PendingRows(rs) == {i \in DOMAIN rs : rs[i].status = "pending"}

\* Variant: the subquery without its WHERE status='pending'.
SelectAnyRow(rs) == IF rs = <<>> THEN 0 ELSE 1

\* Variant: the subquery with WHERE status != 'running'.
SelectNotRunning(rs) ==
    IF {i \in DOMAIN rs : rs[i].status # "running"} = {} THEN 0
    ELSE CHOOSE i \in DOMAIN rs :
            /\ rs[i].status # "running"
            /\ \A j \in DOMAIN rs : rs[j].status # "running" => i <= j

SelectPending(rs) ==
    IF PendingRows(rs) = {} THEN 0
    ELSE CHOOSE i \in PendingRows(rs) : \A j \in PendingRows(rs) : i <= j

\* Variant: the UPDATE stamps node and ts_start but leaves the status.
ClaimRowKeepStatus(r, node, ts) ==
    [r EXCEPT !.node = node, !.ts_start = ts]

ClaimRow(r, node, ts) ==
    [r EXCEPT !.status = "running", !.node = node, !.ts_start = ts]

\* node = os.getenv("HOSTNAME") or "local", read when worker_loop starts; an
\* unset and an empty HOSTNAME are both "".
NodeOf(w) == IF hostname[w] # "" THEN hostname[w] ELSE "local"

Claim(w) ==
    /\ pc[w] = "claim"
    /\ CanWrite(w)
    /\ LET i == SelectPending(rows) IN
       IF i = 0
       THEN /\ wlock' = w
            /\ task' = [task EXCEPT ![w] = PyNone]
            /\ pc' = [pc EXCEPT ![w] = "check"]
            /\ held' = [held EXCEPT ![w] = NULL]
            /\ UNCHANGED <<rows, now, claimed>>
       ELSE /\ \E t \in Clock :
                 /\ now' = t
                 /\ rows' = [rows EXCEPT ![i] = ClaimRow(rows[i], NodeOf(w), t)]
            /\ wlock' = NoProc
            /\ task' = [task EXCEPT ![w] = yaml_safe_load(rows[i].task_info)]
            /\ held' = [held EXCEPT ![w] = rows[i].task_id]
            /\ claimed' = [id \in DOMAIN claimed \cup {rows[i].task_id} |->
                             IF id = rows[i].task_id
                             THEN (IF id \in DOMAIN claimed THEN claimed[id] ELSE 0) + 1
                             ELSE claimed[id]]
            /\ pc' = [pc EXCEPT ![w] =
                        IF yaml_safe_load(rows[i].task_info) = PyNone
                        THEN "check" ELSE "run"]
    /\ UNCHANGED <<out, ran, enqueued, requeued>>
    /\ UNCHANGED <<xp, fs, ex, sb, tk, hostname>>

(***************************************************************************)
(* pending_count and the two branches of worker_loop after a claim that    *)
(* returned None: stop when nothing is pending, else sleep and retry.      *)
(***************************************************************************)
\* Variant: counts every record that is not finished (status pending or running).
UnfinishedCount(rs) ==
    Cardinality({i \in DOMAIN rs : rs[i].status \in {"pending", "running"}})

pending_count(rs) == Cardinality(PendingRows(rs))

\* Variant: with records still pending the loop goes straight back to the claim.
PendingCheckSpin(w) ==
    /\ pc[w] = "check"
    /\ pc' = [pc EXCEPT ![w] = IF pending_count(rows) = 0 THEN "stopped" ELSE "claim"]
    /\ UNCHANGED <<rows, now, wlock, task, out, held, claimed, ran, enqueued, requeued>>
    /\ UNCHANGED <<xp, fs, ex, sb, tk, hostname>>

PendingCheck(w) ==
    /\ pc[w] = "check"
    /\ pc' = [pc EXCEPT ![w] = IF pending_count(rows) = 0 THEN "stopped" ELSE "sleep"]
    /\ UNCHANGED <<rows, now, wlock, task, out, held, claimed, ran, enqueued, requeued>>
    /\ UNCHANGED <<xp, fs, ex, sb, tk, hostname>>

Wake(w) ==
    /\ pc[w] = "sleep"
    /\ pc' = [pc EXCEPT ![w] = "claim"]
    /\ UNCHANGED <<rows, now, wlock, task, out, held, claimed, ran, enqueued, requeued>>
    /\ UNCHANGED <<xp, fs, ex, sb, tk, hostname>>

(***************************************************************************)
(* The call of the user function on the merged configuration: it returns   *)
(* a value or raises an exception whose str() is the message.              *)
(***************************************************************************)
Outcomes ==
    {[kind |-> "ok", result |-> r, error |-> NULL] : r \in ResultValues}
    \cup {[kind |-> "err", result |-> PyNone, error |-> m] : m \in ErrMsgs}

Run(w) ==
    /\ pc[w] = "run"
    /\ \E o \in Outcomes :
         /\ out' = [out EXCEPT ![w] = o]
         /\ ran' = [id \in DOMAIN ran \cup {held[w]} |->
                      IF id = held[w] THEN o ELSE ran[id]]
    /\ pc' = [pc EXCEPT ![w] = "finish"]
    /\ UNCHANGED <<rows, now, wlock, task, held, claimed, enqueued, requeued>>
    /\ UNCHANGED <<xp, fs, ex, sb, tk, hostname>>

(***************************************************************************)
(* finish_task: status = "failed" if error else "done"; the UPDATE is      *)
(* keyed by the hash of the task the worker holds and is not conditional   *)
(* on the row's status.                                                    *)
(***************************************************************************)
Truthy(error) == error \notin {NULL, ""}

FinishStatus(error) == IF Truthy(error) THEN "failed" ELSE "done"

ResultStr(result) == IF result = PyNone THEN NULL ELSE yaml_dump(result)

FinishTask(rs, t, error, result, ts) ==
    [i \in DOMAIN rs |->
        IF rs[i].task_id = _hash_task(t)
        THEN [rs[i] EXCEPT !.status = FinishStatus(error), !.error = error,
                           !.result_info = ResultStr(result), !.ts_end = ts]
        ELSE rs[i]]

Finish(w) ==
    /\ pc[w] = "finish"
    /\ CanWrite(w)
    /\ \E t \in Clock :
         /\ now' = t
         /\ rows' = FinishTask(rows, task[w], out[w].error, out[w].result, t)
    /\ wlock' = NoProc
    /\ pc' = [pc EXCEPT ![w] = "claim"]
    /\ out' = [out EXCEPT ![w] = NoOut]
    /\ held' = [held EXCEPT ![w] = NULL]
    /\ task' = [task EXCEPT ![w] = PyNone]    \* dead until the next claim assigns it
    /\ UNCHANGED <<claimed, ran, enqueued, requeued>>
    /\ UNCHANGED <<xp, fs, ex, sb, tk, hostname>>

(***************************************************************************)
(* worker_loop has returned and the worker's process ends: its connection  *)
(* is closed, which rolls back an open transaction and frees the lock.     *)
(***************************************************************************)
Exit(w) ==
    /\ pc[w] = "stopped"
    /\ pc' = [pc EXCEPT ![w] = "exited"]
    /\ wlock' = IF wlock = w THEN NoProc ELSE wlock
    /\ UNCHANGED <<rows, now, task, out, held, claimed, ran, enqueued, requeued>>
    /\ UNCHANGED <<xp, fs, ex, sb, tk, hostname>>

(***************************************************************************)
(* dump_to_yaml: one SELECT of (result_info, task_info) over the rows with *)
(* status done or failed, ORDER BY ts_end; rows with equal ts_end come out *)
(* in the order of the table scan (rowid order).  Each row gives one       *)
(* entry: the result read back if result_info is set, else the payload.    *)
(***************************************************************************)
Completed(rs) == SelectSeq(rs, LAMBDA r : r.status \in {"done", "failed"})

RECURSIVE OrderFrom(_, _)
OrderFrom(rs, t) ==
    IF t > MaxClock THEN <<>>
    ELSE SelectSeq(rs, LAMBDA r : r.ts_end = t) \o OrderFrom(rs, t + 1)

OrderByTsEnd(rs) == OrderFrom(rs, NullTs)

EntryOf(r) ==
    IF Truthy(r.result_info) THEN yaml_safe_load(r.result_info)
    ELSE yaml_safe_load(r.task_info)

\* Variant: the SELECT without its WHERE status IN ('done','failed').
ExportEveryRow(rs) ==
    LET sel == OrderByTsEnd(rs) IN [k \in DOMAIN sel |-> EntryOf(sel[k])]

ExportData(rs) ==
    LET sel == SelectSeq(OrderByTsEnd(Completed(rs)),
                         LAMBDA r : Truthy(r.result_info) \/ Truthy(r.task_info))
    IN [k \in DOMAIN sel |-> EntryOf(sel[k])]

(***************************************************************************)
(* yaml.dump(data, f, default_flow_style=False, sort_keys=False) of a      *)
(* list: one "- " entry per element, a mapping with its items in their own *)
(* order and the items after the first indented; "[]" for the empty list.  *)
(***************************************************************************)
RECURSIVE EmitMore(_)
EmitMore(items) ==
    IF items = <<>> THEN ""
    ELSE "  " \o Head(items).key \o ": " \o Head(items).val \o "\n"
         \o EmitMore(Tail(items))

EmitEntry(v) ==
    CASE v.type = "dict" ->
            IF v.items = <<>> THEN "- {}\n"
            ELSE "- " \o Head(v.items).key \o ": " \o Head(v.items).val \o "\n"
                 \o EmitMore(Tail(v.items))
      [] v.type = "none" -> "- null\n"
      [] v.type = "int" -> "- " \o v.text \o "\n"
      [] OTHER -> IF NeedsQuote(v.text) THEN "- '" \o v.text \o "'\n"
                  ELSE "- " \o v.text \o "\n"

RECURSIVE EmitEntries(_)
EmitEntries(data) ==
    IF data = <<>> THEN "" ELSE EmitEntry(Head(data)) \o EmitEntries(Tail(data))

yaml_dump_list(data) == IF data = <<>> THEN "[]\n" ELSE EmitEntries(data)

\* dump_to_yaml up to the call of _atomic_write_yaml.
ExportSelect ==
    /\ xp.pc = "idle"
    /\ xp' = [xp EXCEPT !.pc = "mkstemp", !.data = ExportData(rows)]
    /\ UNCHANGED <<rows, now, wlock, pc, task, out, held, claimed, ran, enqueued, requeued>>
    /\ UNCHANGED <<fs, ex, sb, tk, hostname>>

(***************************************************************************)
(* _atomic_write_yaml: mkstemp creates an empty file next to the result    *)
(* file, yaml.dump writes into it an entry at a time, the `with` block     *)
(* closes it, and os.rename puts it in the place of the result file.       *)
(***************************************************************************)
ExportMkstemp ==
    /\ xp.pc = "mkstemp"
    /\ fs' = [fs EXCEPT ![mkstemp(ResultPath)] = ""]
    /\ xp' = [xp EXCEPT !.pc = "write", !.pos = 0]
    /\ UNCHANGED <<rows, now, wlock, pc, task, out, held, claimed, ran, enqueued, requeued>>
    /\ UNCHANGED <<ex, sb, tk, hostname>>

ExportWrite ==
    /\ xp.pc = "write"
    /\ IF xp.data = <<>>
       THEN /\ fs' = [fs EXCEPT ![mkstemp(ResultPath)] = yaml_dump_list(<<>>)]
            /\ xp' = [xp EXCEPT !.pc = "rename"]
       ELSE /\ fs' = [fs EXCEPT ![mkstemp(ResultPath)] = @ \o EmitEntry(xp.data[xp.pos + 1])]
            /\ xp' = [xp EXCEPT !.pos = @ + 1,
                                !.pc = IF xp.pos + 1 = Len(xp.data) THEN "rename" ELSE "write"]
    /\ UNCHANGED <<rows, now, wlock, pc, task, out, held, claimed, ran, enqueued, requeued>>
    /\ UNCHANGED <<ex, sb, tk, hostname>>

ExportRename ==
    /\ xp.pc = "rename"
    /\ fs' = [n \in FileNames |->
                IF n = ResultPath THEN fs[mkstemp(ResultPath)] ELSE Absent]
    /\ xp' = XpIdle(xp.data, TRUE)
    /\ UNCHANGED <<rows, now, wlock, pc, task, out, held, claimed, ran, enqueued, requeued>>
    /\ UNCHANGED <<ex, sb, tk, hostname>>

ExportStep ==
    \/ ExportSelect
    \/ ExportMkstemp
    \/ ExportWrite
    \/ ExportRename

(***************************************************************************)
(* The worker's process is killed between the return of claim_next_task    *)
(* and its finish_task: worker_loop runs no further statement.             *)
(***************************************************************************)
Kill(w) ==
    /\ pc[w] \in {"run", "finish"}
    /\ pc' = [pc EXCEPT ![w] = "killed"]
    /\ wlock' = IF wlock = w THEN NoProc ELSE wlock
    /\ UNCHANGED <<rows, now, task, out, held, claimed, ran, enqueued, requeued>>
    /\ UNCHANGED <<xp, fs, ex, sb, tk, hostname>>

(***************************************************************************)
(* ParallelExecutor (flexlock/parallel.py) in local mode.  A task is done  *)
(* when its done file <save_dir>/.flexlock_done/<sha1(str(task))>.done     *)
(* exists; ex.done is the set of ids that have a done file.  run() filters *)
(* the tasks that have one and hands the rest to _run_subset_locally: a    *)
(* plain loop for n_jobs <= 1, joblib.Parallel with n_jobs processes       *)
(* otherwise.  ex.job[k] is where run_single is for the k-th undone task:  *)
(* "wait" (not started), "ok" / "err" (func has returned / raised),        *)
(* "done" / "failed" (run_single has returned / raised).                   *)
(***************************************************************************)
NJobs == {1, 2}

_get_task_id(t) == Sha1Hex(Str(t))

\* The task lists given to the executor; the list may be empty.
ExecTaskLists == TaskLists \cup {<<>>}

\* __init__ with a save_dir: done_dir.mkdir(parents=True, exist_ok=True)
\* creates the output directory and the tracking directory.
ExecNew(ts, n) ==
    /\ ex.pc = "new"
    /\ ex' = [ex EXCEPT !.pc = "ready", !.tasks = ts, !.n_jobs = n,
                        !.save_dir = TRUE, !.done_dir = TRUE]
    /\ UNCHANGED <<rows, now, wlock, pc, task, out, held, claimed, ran, enqueued, requeued>>
    /\ UNCHANGED <<xp, fs, sb, tk, hostname>>

\* An error of a missing setting that is raised only after done_dir has been
\* made.
FailLate(e, missing) ==
    [e EXCEPT !.pc = "usage_error", !.missing = missing, !.done_dir = TRUE]

\* The error of a missing setting: raised before done_dir is computed and
\* made.
FailFast(e, missing) ==
    [e EXCEPT !.pc = "usage_error", !.missing = missing]

\* __init__ on a configuration without save_dir raises ValueError.
ExecNewNoSaveDir(ts, n) ==
    /\ ex.pc = "new"
    /\ ex' = FailFast([ex EXCEPT !.tasks = ts, !.n_jobs = n], "save_dir")
    /\ UNCHANGED <<rows, now, wlock, pc, task, out, held, claimed, ran, enqueued, requeued>>
    /\ UNCHANGED <<xp, fs, sb, tk, hostname>>

\* The command line with --tasks, without --task-to and with debug off: the
\* wrapper makes save_dir and saves config.yaml when the configuration has
\* a save_dir (sd), then parser.error exits before the tasks are loaded and
\* before an executor is made.
CliNoTaskTo(sd) ==
    /\ ex.pc = "new"
    /\ ex' = FailFast([ex EXCEPT !.save_dir = sd], "task_to")
    /\ UNCHANGED <<rows, now, wlock, pc, task, out, held, claimed, ran, enqueued, requeued>>
    /\ UNCHANGED <<xp, fs, sb, tk, hostname>>

\* The key a task is merged under: f"{cli_args.task_to}={task}" formats a
\* missing --task-to as "None".
TaskKey(has_task_to) == IF has_task_to THEN "task" ELSE "None"

\* The call fn(cfg) made when no task was loaded.
RunOnceCall == [key |-> "", task |-> PyNone]

\* The calls the debug branch makes when no call raises: fn once per task,
\* in list order, with the task merged under the key; fn(cfg) once when no
\* task was loaded.
DebugCalls(ts, has_task_to) ==
    IF ts = <<>> THEN <<RunOnceCall>>
    ELSE [k \in DOMAIN ts |-> [key |-> TaskKey(has_task_to), task |-> ts[k]]]

\* The command line with --tasks and debug on (--debug, debug=True or
\* FLEXLOCK_DEBUG): the wrapper takes the branch "Debug mode is enabled,
\* parallel execution is disabled", where no executor is made and --task-to
\* is not looked at.  The first m calls return; a call that raises ends the
\* wrapper.
CliDebugTasks(ts, sd, has_task_to, m) ==
    /\ ex.pc = "new"
    /\ LET all == DebugCalls(ts, has_task_to)
           n == IF m < Len(all) THEN m + 1 ELSE m
       IN  /\ m \in 0..Len(all)
           /\ ex' = [ex EXCEPT
                        !.pc = IF m < Len(all) THEN "debug_raised" ELSE "debug_returned",
                        !.tasks = ts,
                        !.save_dir = sd,
                        !.missing = IF has_task_to THEN "none" ELSE "task_to",
                        !.debug_enabled = TRUE,
                        !.cli_calls = SubSeq(all, 1, n)]
    /\ UNCHANGED <<rows, now, wlock, pc, task, out, held, claimed, ran, enqueued, requeued>>
    /\ UNCHANGED <<xp, fs, sb, tk, hostname>>

\* The command line with --tasks and --task-to, debug off, where load_tasks
\* gives no task: no executor is made and the wrapper returns fn(cfg), which
\* returns or raises.
CliRunOnce(sd, raises) ==
    /\ ex.pc = "new"
    /\ ex' = [ex EXCEPT !.pc = IF raises THEN "once_raised" ELSE "once_returned",
                        !.save_dir = sd,
                        !.cli_calls = <<RunOnceCall>>]
    /\ UNCHANGED <<rows, now, wlock, pc, task, out, held, claimed, ran, enqueued, requeued>>
    /\ UNCHANGED <<xp, fs, sb, tk, hostname>>

\* load_tasks raises (the tasks file is missing or has an unsupported
\* suffix): the wrapper has made save_dir and config.yaml when the
\* configuration has a save_dir, and fn is not called.  load_tasks is
\* reached in the debug branch, or with debug off on a command line that has
\* a --task-to.
CliLoadFails(sd, has_task_to, debug) ==
    /\ ex.pc = "new"
    /\ debug \/ has_task_to
    /\ ex' = [ex EXCEPT !.pc = "load_raised",
                        !.save_dir = sd,
                        !.missing = IF has_task_to THEN "none" ELSE "task_to",
                        !.debug_enabled = debug]
    /\ UNCHANGED <<rows, now, wlock, pc, task, out, held, claimed, ran, enqueued, requeued>>
    /\ UNCHANGED <<xp, fs, sb, tk, hostname>>

_filter_done_tasks(ts, done) ==
    SelectSeq(ts, LAMBDA t : _get_task_id(t) \notin done)

\* run() up to the call of _run_subset_locally; it is called again when an
\* earlier call has returned or raised (checkpoint, or a new invocation).
ExecRun ==
    /\ ex.pc \in {"ready", "returned", "raised"}
    /\ ex.mode = "local"
    /\ LET undone == _filter_done_tasks(ex.tasks, ex.done) IN
         ex' = [ex EXCEPT !.undone = undone,
                          !.job = [k \in DOMAIN undone |-> "wait"],
                          !.failed_before =
                              @ \cup {yaml_dump(ex.undone[k]) :
                                         k \in {j \in DOMAIN ex.job : ex.job[j] = "failed"}},
                          !.done_before =
                              @ \cup {ex.undone[k] :
                                         k \in {j \in DOMAIN ex.job : ex.job[j] = "done"}},
                          !.pc = IF undone = <<>> THEN "returned" ELSE "local"]
    /\ UNCHANGED <<rows, now, wlock, pc, task, out, held, claimed, ran, enqueued, requeued>>
    /\ UNCHANGED <<xp, fs, sb, tk, hostname>>

\* The calls of run_single that run at the same time.
Width(n) == IF n > 1 THEN n ELSE 1

\* run_single up to the return of self.func(task_cfg): the function returns
\* or raises.  Tasks are started in list order.
RunSingleCall(k) ==
    /\ ex.pc = "local"
    /\ ex.job[k] = "wait"
    /\ \A j \in 1..(k - 1) : ex.job[j] # "wait"
    /\ Cardinality({j \in DOMAIN ex.job : ex.job[j] \in {"ok", "err"}}) < Width(ex.n_jobs)
    /\ \E o \in {"ok", "err"} : ex' = [ex EXCEPT !.job[k] = o]
    /\ UNCHANGED <<rows, now, wlock, pc, task, out, held, claimed, ran, enqueued, requeued>>
    /\ UNCHANGED <<xp, fs, sb, tk, hostname>>

\* The rest of run_single: done_file.touch() after a return; after an
\* exception the done file is removed if it exists and the exception is
\* raised again, which ends the loop of _run_subset_locally at once.
RunSingleEnd(k) ==
    /\ ex.pc = "local"
    /\ ex.job[k] \in {"ok", "err"}
    /\ ex' = IF ex.job[k] = "ok"
             THEN [ex EXCEPT !.job[k] = "done",
                             !.done = @ \cup {_get_task_id(ex.undone[k])}]
             ELSE [ex EXCEPT !.job[k] = "failed",
                             !.done = @ \ {_get_task_id(ex.undone[k])},
                             !.pc = IF ex.n_jobs > 1 THEN "local" ELSE "raised"]
    /\ UNCHANGED <<rows, now, wlock, pc, task, out, held, claimed, ran, enqueued, requeued>>
    /\ UNCHANGED <<xp, fs, sb, tk, hostname>>

\* joblib.Parallel raises the exception of a failed call in the calling
\* process; calls still under way are abandoned.
ExecRaise ==
    /\ ex.pc = "local"
    /\ ex.n_jobs > 1
    /\ \E k \in DOMAIN ex.job : ex.job[k] = "failed"
    /\ ex' = [ex EXCEPT !.pc = "raised"]
    /\ UNCHANGED <<rows, now, wlock, pc, task, out, held, claimed, ran, enqueued, requeued>>
    /\ UNCHANGED <<xp, fs, sb, tk, hostname>>

\* Every call of run_single has returned: _run_subset_locally and run() return.
ExecReturn ==
    /\ ex.pc = "local"
    /\ \A k \in DOMAIN ex.job : ex.job[k] = "done"
    /\ ex' = [ex EXCEPT !.pc = "returned"]
    /\ UNCHANGED <<rows, now, wlock, pc, task, out, held, claimed, ran, enqueued, requeued>>
    /\ UNCHANGED <<xp, fs, sb, tk, hostname>>

(***************************************************************************)
(* ParallelExecutor.run with a slurm_config: the undone tasks are handed   *)
(* to submitit, as one job (executor.submit) or, when                      *)
(* slurm_array_parallelism > 1, as a job array over chunks of the list     *)
(* (executor.map_array).  run() ends after the submission.  Every rank of  *)
(* every job calls _distribute_and_run on the job's chunk and runs the     *)
(* tasks chunk[global_rank::world_size] one after the other.  Chunks and   *)
(* slices are kept as list positions of undone_tasks.                      *)
(***************************************************************************)
RemoteTaskLists ==
    {<<>>, <<StrA, Int5, Str1>>, <<Int1, Str1, StrA>>}

Positions(n) == [k \in 1..n |-> k]

\* -(-n // array_parallelism)
tasks_per_job(n, array_parallelism) == -((-n) \div array_parallelism)

\* [undone[i:i + tasks_per_job] for i in range(0, len(undone), tasks_per_job)]
task_chunks(undone, array_parallelism) ==
    LET n == Len(undone)
        per == tasks_per_job(n, array_parallelism)
        starts == -((-n) \div per)
        upto(c) == IF c * per < n THEN c * per ELSE n
    IN  [c \in 1..starts |-> SubSeq(undone, (c - 1) * per + 1, upto(c))]

\* Every rank runs the whole chunk.
WholeChunk(chunk, rank, world_size) == chunk

\* tasks_to_distribute[env.global_rank::env.world_size]
my_tasks(chunk, rank, world_size) ==
    LET n == IF rank >= Len(chunk) THEN 0
             ELSE -((-(Len(chunk) - rank)) \div world_size)
    IN  [m \in 1..n |-> chunk[rank + (m - 1) * world_size + 1]]

\* run() that returns only when every submitted task has been run.
WaitForJobs(e) ==
    IF \A k \in DOMAIN e.job : e.job[k] # "wait" THEN [e EXCEPT !.pc = "returned"]
    ELSE e

\* The end of run() after executor.submit or executor.map_array has
\* returned: the handles are logged and run() returns.
AfterSubmit(e) == [e EXCEPT !.pc = "returned"]

\* __init__ with a slurm_config path.
ExecNewRemote(ts, ap, ws) ==
    /\ ex.pc = "new"
    /\ ex' = [ex EXCEPT !.pc = "ready", !.tasks = ts, !.n_jobs = 1, !.mode = "slurm",
                        !.array_parallelism = ap, !.world_size = ws,
                        !.save_dir = TRUE, !.done_dir = TRUE]
    /\ UNCHANGED <<rows, now, wlock, pc, task, out, held, claimed, ran, enqueued, requeued>>
    /\ UNCHANGED <<xp, fs, sb, tk, hostname>>

\* The tasks that rank r of job j of the last submission has still to run,
\* in order; none when the rank has ended on a task that raised.
Remaining(e, j, r) ==
    LET slice == my_tasks(e.chunks[j], r, e.world_size)
        n == e.prog[j][r + 1]
    IN  IF n > 0 /\ e.job[slice[n]] = "failed" THEN <<>>
        ELSE [m \in 1..(Len(slice) - n) |-> e.undone[slice[n + m]]]

\* What the jobs of the last submission have still to run when run() is
\* called again: one list of tasks per rank that has not ended.
Unfinished(e) ==
    LET ranks == (DOMAIN e.chunks) \X (0..(e.world_size - 1))
        lists == {Remaining(e, p[1], p[2]) : p \in ranks} \ {<<>>}
    IN  [l \in lists |-> Cardinality({p \in ranks : Remaining(e, p[1], p[2]) = l})]

\* One turn of the list comprehension of _filter_done_tasks: the done file
\* of task k is looked up, and the task is kept when there is none.
Lookup(e, k) ==
    [e EXCEPT !.scan = k,
              !.kept = IF _get_task_id(e.tasks[k]) \in e.done THEN @
                       ELSE Append(@, e.tasks[k])]

\* run() with every task filtered out returns at once.  The jobs of the
\* earlier submissions stay with the scheduler.
NothingToDo(e) ==
    [e EXCEPT !.pc = "returned", !.undone = <<>>, !.job = <<>>, !.chunks = <<>>,
              !.prog = <<>>, !.scan = 0, !.kept = <<>>,
              !.earlier = e.earlier (+) Unfinished(e)]

\* run() up to the point where the scheduler has the jobs of
\* executor.map_array on the chunks, or of executor.submit on the whole list.
Submitted(e) ==
    LET chunks == IF e.array_parallelism > 1
                  THEN task_chunks(Positions(Len(e.kept)), e.array_parallelism)
                  ELSE <<Positions(Len(e.kept))>>
    IN  [e EXCEPT !.pc = "submitting",
                  !.undone = e.kept,
                  !.job = [k \in DOMAIN e.kept |-> "wait"],
                  !.chunks = chunks,
                  !.prog = [j \in DOMAIN chunks |-> [r \in 1..e.world_size |-> 0]],
                  !.scan = 0, !.kept = <<>>,
                  !.submitted = e.submitted + 1,
                  !.earlier = e.earlier (+) Unfinished(e)]

\* run() raises in the Slurm branch before the scheduler has a job:
\* ImportError when submitit is missing, an error of the configuration file,
\* or the error of the submission call.
RunRaises(e) ==
    [e EXCEPT !.pc = "raised", !.undone = e.kept, !.job = <<>>, !.chunks = <<>>,
              !.prog = <<>>, !.scan = 0, !.kept = <<>>,
              !.earlier = e.earlier (+) Unfinished(e)]

\* What run() does once the filter has looked at every task.
RunEnds(e) ==
    IF e.kept = <<>> THEN {NothingToDo(e)} ELSE {Submitted(e), RunRaises(e)}

\* run() in Slurm mode, up to the look-up of the first task's done file.
\* run() may be called again on the same executor (a new invocation, or the
\* requeue that checkpoint() asks for) while the jobs of the earlier
\* submissions touch and remove done files.
ExecRunRemote ==
    /\ ex.pc \in {"ready", "returned", "raised"}
    /\ ex.mode = "slurm"
    /\ ex.submitted < MaxRuns
    /\ LET e0 == [ex EXCEPT !.pc = "filtering", !.scan = 0, !.kept = <<>>]
       IN  ex' = IF ex.tasks = <<>> THEN e0 ELSE Lookup(e0, 1)
    /\ UNCHANGED <<rows, now, wlock, pc, task, out, held, claimed, ran, enqueued, requeued>>
    /\ UNCHANGED <<xp, fs, sb, tk, hostname>>

\* The look-up of the next task's done file.
ExecFilterNext ==
    /\ ex.pc = "filtering"
    /\ ex.scan < Len(ex.tasks)
    /\ ex' = Lookup(ex, ex.scan + 1)
    /\ UNCHANGED <<rows, now, wlock, pc, task, out, held, claimed, ran, enqueued, requeued>>
    /\ UNCHANGED <<xp, fs, sb, tk, hostname>>

\* run() after the filter has looked at every task: it returns when none is
\* left; else it loads the Slurm configuration, builds the submitit executor
\* and calls map_array or submit, and the scheduler has the jobs, or one of
\* these raises.
ExecSubmit ==
    /\ ex.pc = "filtering"
    /\ ex.scan = Len(ex.tasks)
    /\ ex' \in RunEnds(ex)
    /\ UNCHANGED <<rows, now, wlock, pc, task, out, held, claimed, ran, enqueued, requeued>>
    /\ UNCHANGED <<xp, fs, sb, tk, hostname>>

\* The submission call returns and run() returns.
ExecReturnRemote ==
    /\ ex.pc = "submitting"
    /\ ex' = AfterSubmit(ex)
    /\ UNCHANGED <<rows, now, wlock, pc, task, out, held, claimed, ran, enqueued, requeued>>
    /\ UNCHANGED <<xp, fs, sb, tk, hostname>>

\* Rank r of job j of the last submission runs the next task of its slice
\* with run_single: done_file.touch() after a return; a task that raises has
\* its done file removed if there is one, and ends the rank.
RemoteRunSingle(j, r) ==
    /\ ex.mode = "slurm"
    /\ j \in DOMAIN ex.chunks
    /\ r \in 0..(ex.world_size - 1)
    /\ LET slice == my_tasks(ex.chunks[j], r, ex.world_size)
           n == ex.prog[j][r + 1]
       IN  /\ n < Len(slice)
           /\ n > 0 => ex.job[slice[n]] # "failed"
           /\ \E o \in {"done", "failed"} :
                LET id == _get_task_id(ex.undone[slice[n + 1]])
                IN  ex' = [ex EXCEPT
                              !.job[slice[n + 1]] = o,
                              !.prog[j][r + 1] = n + 1,
                              !.done = IF o = "done" THEN ex.done \cup {id}
                                       ELSE ex.done \ {id}]
    /\ UNCHANGED <<rows, now, wlock, pc, task, out, held, claimed, ran, enqueued, requeued>>
    /\ UNCHANGED <<xp, fs, sb, tk, hostname>>

\* A rank of a job of an earlier submission runs the next task of its list.
EarlierRunSingle(l) ==
    /\ ex.mode = "slurm"
    /\ BagIn(l, ex.earlier)
    /\ \E o \in {"done", "failed"} :
         LET id == _get_task_id(Head(l))
             rest == IF o = "done" /\ Tail(l) # <<>> THEN SetToBag({Tail(l)})
                     ELSE EmptyBag
         IN  ex' = [ex EXCEPT
                       !.earlier = (ex.earlier (-) SetToBag({l})) (+) rest,
                       !.done = IF o = "done" THEN ex.done \cup {id}
                                ELSE ex.done \ {id}]
    /\ UNCHANGED <<rows, now, wlock, pc, task, out, held, claimed, ran, enqueued, requeued>>
    /\ UNCHANGED <<xp, fs, sb, tk, hostname>>

(***************************************************************************)
(* snapshot.track_task: INSERT of yaml.dump(task_info) and commit, then    *)
(* _dump_tasks_to_yaml: SELECT task_info ORDER BY id, yaml.safe_load of    *)
(* every row, and _atomic_write_yaml: a temporary file of the caller's own *)
(* (mkstemp) is written and renamed onto the .tasks file.  No lock is held *)
(* from the SELECT to the rename.                                          *)
(***************************************************************************)
TrackValues == {StrA, Int5, DictYX}

TrackInsert(t, v) ==
    /\ tk.p[t].pc = "idle"
    /\ Len(tk.table) < MaxTracked
    /\ tk' = [tk EXCEPT !.table = Append(@, yaml_dump(v)), !.p[t].pc = "select"]
    /\ UNCHANGED <<rows, now, wlock, pc, task, out, held, claimed, ran, enqueued, requeued>>
    /\ UNCHANGED <<xp, fs, ex, sb, hostname>>

TrackSelect(t) ==
    /\ tk.p[t].pc = "select"
    /\ tk' = [tk EXCEPT !.p[t].snap = [i \in DOMAIN tk.table |-> yaml_safe_load(tk.table[i])],
                        !.p[t].pc = "write"]
    /\ UNCHANGED <<rows, now, wlock, pc, task, out, held, claimed, ran, enqueued, requeued>>
    /\ UNCHANGED <<xp, fs, ex, sb, hostname>>

TrackWrite(t) ==
    /\ tk.p[t].pc = "write"
    /\ tk' = [tk EXCEPT !.p[t].tmp = yaml_dump_list(tk.p[t].snap), !.p[t].pc = "rename"]
    /\ UNCHANGED <<rows, now, wlock, pc, task, out, held, claimed, ran, enqueued, requeued>>
    /\ UNCHANGED <<xp, fs, ex, sb, hostname>>

\* os.rename(temp_path, path); track_task returns.
TrackRename(t) ==
    /\ tk.p[t].pc = "rename"
    /\ tk' = [tk EXCEPT !.file = tk.p[t].tmp, !.p[t].tmp = Absent, !.p[t].pc = "idle"]
    /\ UNCHANGED <<rows, now, wlock, pc, task, out, held, claimed, ran, enqueued, requeued>>
    /\ UNCHANGED <<xp, fs, ex, sb, hostname>>

(***************************************************************************)
(* Lock-acquisition timeouts.  A write that finds the lock held by another *)
(* process waits in the busy handler (busy_timeout=15000) and then raises  *)
(* sqlite3.OperationalError("database is locked").  claim_next_task is     *)
(* called outside worker_loop's try block; finish_task(result=...) is      *)
(* called inside it, so its exception is caught by `except Exception`,     *)
(* whose handler calls finish_task(error=str(e)) outside any try block.    *)
(***************************************************************************)
LockedMsg == "database is locked"

ClaimFail(w) ==
    /\ pc[w] = "claim"
    /\ ~ CanWrite(w)
    /\ pc' = [pc EXCEPT ![w] = "crashed"]
    /\ UNCHANGED <<rows, now, wlock, task, out, held, claimed, ran, enqueued, requeued>>
    /\ UNCHANGED <<xp, fs, ex, sb, tk, hostname>>

FinishFail(w) ==
    /\ pc[w] = "finish"
    /\ ~ CanWrite(w)
    /\ IF out[w].kind = "ok"
       THEN /\ out' = [out EXCEPT ![w] =
                         [kind |-> "caught", result |-> PyNone, error |-> LockedMsg]]
            /\ pc' = pc
       ELSE /\ pc' = [pc EXCEPT ![w] = "crashed"]
            /\ out' = out
    /\ UNCHANGED <<rows, now, wlock, task, held, claimed, ran, enqueued, requeued>>
    /\ UNCHANGED <<xp, fs, ex, sb, tk, hostname>>

(***************************************************************************)
(* The scheduler backends.  SlurmBackend.submit and PBSBackend.submit      *)
(* pickle one (fn, args, kwargs), write a job script and run the           *)
(* scheduler's submission command once; SlurmBackend.map_array pickles the *)
(* list of (fn, (p,), {}) and submits one script with an array directive.  *)
(* subprocess.check_output raises CalledProcessError on a nonzero exit and *)
(* neither method catches it.                                              *)
(***************************************************************************)
\* The lists of argument sets handed to map_array.
ParamLists ==
    {<<StrA>>, <<Int1, Str1>>, <<Int5, Int5>>, <<DictYX, DictXY>>, <<StrA, DictXY>>}

\* The standard output of a successful submission command, as its words.
SchedulerOutputs(kind) ==
    IF kind = "slurm"
    THEN {<<"Submitted", "batch", "job", "42">>, <<"43">>}
    ELSE {<<"42.head">>}

\* An array element that has not run.
NotRun == [type |-> "notrun", text |-> "", items |-> <<>>]

\* Python's == on the values of the model: dicts are equal when they hold
\* the same keys with the same values, in any order.
PyEq(a, b) ==
    /\ a.type = b.type
    /\ a.text = b.text
    /\ Len(a.items) = Len(b.items)
    /\ {a.items[k] : k \in DOMAIN a.items} = {b.items[k] : k \in DOMAIN b.items}

\* all(d == data[0] for d in data) if len(data) > 1 else True
all_same(data) == \A k \in DOMAIN data : PyEq(data[k], data[1])

\* _make_script adds "#SBATCH --array=0-{array_size-1}" only in this case.
ArrayDirective(is_array, array_size) == is_array /\ array_size > 1

\* The number of executions the scheduler starts for one submission.
Elements(s) == IF ArrayDirective(s.is_list, s.array_size) THEN s.array_size ELSE 1

\* The arguments the job script passes to fn in the element whose
\* SLURM_ARRAY_TASK_ID is idx (0 when the variable is not set).
ScriptArgs(s, idx) ==
    IF s.is_list
    THEN IF all_same(s.data) THEN s.data[1] ELSE s.data[idx + 1]
    ELSE s.data[1]

JoinWords(ws) == IF Len(ws) = 1 THEN ws[1] ELSE ws[1] \o " " \o ws[2]

\* out.split()[-1] for Slurm, the whole output for PBS.
JobIdOf(kind, ws) == IF kind = "slurm" THEN ws[Len(ws)] ELSE JoinWords(ws)

IndexText(i) == <<"0", "1", "2", "3">>[i + 1]

\* SlurmJob(f"{job_id}[{i}]") for i in range(len(params_list)); one handle
\* with the job id for submit.
HandlesOf(s, job_id) ==
    IF s.op = "map_array"
    THEN [k \in DOMAIN s.data |-> job_id \o "[" \o IndexText(k - 1) \o "]"]
    ELSE <<job_id>>

\* A second submission attempt after the command has failed.
RetryOnError(s) ==
    [s EXCEPT !.pc = "error", !.submissions = @ + 2]

\* The submission command fails: CalledProcessError leaves the method, no
\* handle is returned.
OnSubmitError(s) ==
    [s EXCEPT !.pc = "error", !.submissions = @ + 1]

\* map_array up to the submission command.
MapArray(params) ==
    /\ sb.pc = "idle"
    /\ sb' = [sb EXCEPT !.pc = "sbatch", !.kind = "slurm", !.op = "map_array",
                        !.data = params, !.is_list = TRUE,
                        !.array_size = Len(params),
                        !.executed = [k \in DOMAIN params |-> NotRun]]
    /\ UNCHANGED <<rows, now, wlock, pc, task, out, held, claimed, ran, enqueued, requeued>>
    /\ UNCHANGED <<xp, fs, ex, tk, hostname>>

\* submit up to the submission command.
Submit(kind, p) ==
    /\ sb.pc = "idle"
    /\ sb' = [sb EXCEPT !.pc = "sbatch", !.kind = kind, !.op = "submit",
                        !.data = <<p>>, !.is_list = FALSE, !.array_size = 0,
                        !.executed = <<NotRun>>]
    /\ UNCHANGED <<rows, now, wlock, pc, task, out, held, claimed, ran, enqueued, requeued>>
    /\ UNCHANGED <<xp, fs, ex, tk, hostname>>

\* The submission command succeeds and the method returns its handles.
SchedulerAccept(ws) ==
    /\ sb.pc = "sbatch"
    /\ ws \in SchedulerOutputs(sb.kind)
    /\ sb' = [sb EXCEPT !.pc = "submitted", !.submissions = @ + 1,
                        !.job_id = JobIdOf(sb.kind, ws),
                        !.handles = HandlesOf(sb, JobIdOf(sb.kind, ws))]
    /\ UNCHANGED <<rows, now, wlock, pc, task, out, held, claimed, ran, enqueued, requeued>>
    /\ UNCHANGED <<xp, fs, ex, tk, hostname>>

SchedulerReject ==
    /\ sb.pc = "sbatch"
    /\ sb' = OnSubmitError(sb)
    /\ UNCHANGED <<rows, now, wlock, pc, task, out, held, claimed, ran, enqueued, requeued>>
    /\ UNCHANGED <<xp, fs, ex, tk, hostname>>

\* The scheduler runs the job script of element i.  The job is a process
\* of its own, started once the submission command has queued it: before
\* or after the command has printed the job id and the method has returned.
\* A command that waits for the job (an extra directive "#SBATCH --wait")
\* exits with the job's status after every element has run.
ElementRun(i) ==
    /\ sb.pc \in {"sbatch", "submitted"}
    /\ i \in 0..(Elements(sb) - 1)
    /\ sb.executed[i + 1] = NotRun
    /\ sb' = [sb EXCEPT !.executed[i + 1] = ScriptArgs(sb, i)]
    /\ UNCHANGED <<rows, now, wlock, pc, task, out, held, claimed, ran, enqueued, requeued>>
    /\ UNCHANGED <<xp, fs, ex, tk, hostname>>

WorkerStep(w) ==
    \/ Claim(w)
    \/ PendingCheck(w)
    \/ Wake(w)
    \/ Run(w)
    \/ Finish(w)
    \/ Exit(w)

Next ==
    \/ \E e \in Enqueuers, ts \in TaskLists : Enqueue(e, ts)
    \/ \E w \in Workers : WorkerStep(w)

Spec == Init /\ [][Next]_vars

\* The same steps from the start with two kinds of host.
SpecTwoHosts == InitTwoHosts /\ [][Next]_vars

\* Every worker process is scheduled again and again.
SpecLive ==
    /\ InitLive
    /\ [][Next]_vars
    /\ \A w \in Workers : WF_vars(WorkerStep(w))

\* One session on a fresh store: queue_tasks seeds it with the task list,
\* the workers drain it, and a process calls dump_to_yaml at any time.
Seed(e, ts) ==
    /\ rows = <<>>
    /\ Enqueue(e, ts)

NextExport ==
    \/ \E e \in Enqueuers, ts \in TaskLists : Seed(e, ts)
    \/ \E w \in Workers : WorkerStep(w)
    \/ ExportStep

SpecExport == Init /\ [][NextExport]_vars

\* A ParallelExecutor in local mode.
NextExec ==
    \/ \E ts \in ExecTaskLists, n \in NJobs : ExecNew(ts, n)
    \/ \E ts \in ExecTaskLists, n \in NJobs : ExecNewNoSaveDir(ts, n)
    \/ \E sd \in BOOLEAN : CliNoTaskTo(sd)
    \/ \E ts \in ExecTaskLists, sd \in BOOLEAN, has_task_to \in BOOLEAN, m \in 0..4 :
           CliDebugTasks(ts, sd, has_task_to, m)
    \/ \E sd \in BOOLEAN, raises \in BOOLEAN : CliRunOnce(sd, raises)
    \/ \E sd \in BOOLEAN, has_task_to \in BOOLEAN, debug \in BOOLEAN :
           CliLoadFails(sd, has_task_to, debug)
    \/ ExecRun
    \/ \E k \in DOMAIN ex.undone : RunSingleCall(k)
    \/ \E k \in DOMAIN ex.undone : RunSingleEnd(k)
    \/ ExecRaise
    \/ ExecReturn

SpecExec == InitNoWorker /\ [][NextExec]_vars

\* The executor in Slurm mode and the ranks of the jobs it has submitted.
NextRemote ==
    \/ \E ts \in RemoteTaskLists, ap \in 1..MaxArray, ws \in 1..MaxWorld :
           ExecNewRemote(ts, ap, ws)
    \/ ExecRunRemote
    \/ ExecFilterNext
    \/ ExecSubmit
    \/ ExecReturnRemote
    \/ \E j \in 1..MaxArray, r \in 0..(MaxWorld - 1) : RemoteRunSingle(j, r)
    \/ \E l \in BagToSet(ex.earlier) : EarlierRunSingle(l)

SpecRemote == InitNoWorker /\ [][NextRemote]_vars

\* The process that has called run() keeps running.  Nothing is assumed of
\* the scheduler or of the jobs: a job may never start.
SpecRemoteRun == SpecRemote /\ WF_vars(ExecReturnRemote)

\* Concurrent callers of track_task on one snapshot path.
NextTrack ==
    \/ \E t \in Trackers, v \in TrackValues : TrackInsert(t, v)
    \/ \E t \in Trackers : TrackSelect(t)
    \/ \E t \in Trackers : TrackWrite(t)
    \/ \E t \in Trackers : TrackRename(t)

SpecTrack == InitNoWorker /\ [][NextTrack]_vars

\* Submissions to a scheduler over a store that holds enqueued tasks.
NextBackend ==
    \/ \E e \in Enqueuers, ts \in TaskLists : Seed(e, ts)
    \/ \E params \in ParamLists : MapArray(params)
    \/ \E kind \in {"slurm", "pbs"}, p \in {StrA, DictYX} : Submit(kind, p)
    \/ \E ws \in SchedulerOutputs("slurm") \cup SchedulerOutputs("pbs") : SchedulerAccept(ws)
    \/ SchedulerReject
    \/ \E i \in 0..3 : ElementRun(i)

SpecBackend == InitNoWorker /\ [][NextBackend]_vars

\* The store with writes that may time out waiting for the lock.
NextFault ==
    \/ Next
    \/ \E w \in Workers : ClaimFail(w)
    \/ \E w \in Workers : FinishFail(w)

SpecFault == Init /\ [][NextFault]_vars

\* The store with workers that may be killed while they hold a task.
NextKill ==
    \/ Next
    \/ \E w \in Workers : Kill(w)

SpecKill == Init /\ [][NextKill]_vars

(***************************************************************************)
(* Properties.                                                             *)
(***************************************************************************)
Holders(id) == {w \in Workers : held[w] = id}

\* worker_loop has returned in every worker.
AllStopped == \A w \in Workers : pc[w] \in {"stopped", "exited"}

RowOf(id) == rows[CHOOSE i \in DOMAIN rows : rows[i].task_id = id]

ClaimCount(id) == IF id \in DOMAIN claimed THEN claimed[id] ELSE 0

\* The payload read back from the row hashes to the row's task_id.
RoundTrips(r) == _hash_task(yaml_safe_load(r.task_info)) = r.task_id

\* C1: no two claim_next_task calls return the same record, and a record in
\* status running is held by at most one worker at any moment.
C1_ExclusiveClaim ==
    /\ \A id \in DOMAIN claimed : claimed[id] <= 1
    /\ \A i \in DOMAIN rows :
          rows[i].status = "running" => Cardinality(Holders(rows[i].task_id)) <= 1

\* Two workers hold two different running records at the same time.
C1_Witness ==
    \E i, j \in DOMAIN rows :
        /\ i # j
        /\ rows[i].status = "running" /\ rows[j].status = "running"
        /\ held["w1"] = rows[i].task_id /\ held["w2"] = rows[j].task_id

\* C6: a queue_tasks call with a task list that was queued before leaves the
\* set of records as it was (same row count, same task_ids), whatever status
\* the records have reached in between.
C6_EnqueueIdempotent ==
    [][\/ (Len(rows') = Len(rows) /\ TaskIds(rows') = TaskIds(rows))
       \/ ~ \E ts \in enqueued, e \in Enqueuers : Enqueue(e, ts)]_vars

\* A list was queued again after one of its records had been claimed.
C6_Witness ==
    /\ requeued
    /\ \E i \in DOMAIN rows : rows[i].status \in {"done", "failed"}

\* C7: queue_tasks leaves every stored row exactly as it was (all columns, in
\* any status), whichever process calls it, and never stores a task_id twice.
C7_EnqueueKeepsRows ==
    [][\/ /\ Len(rows') >= Len(rows)
          /\ SubSeq(rows', 1, Len(rows)) = rows
          /\ Cardinality(TaskIds(rows')) = Len(rows')
       \/ ~ \E ts \in TaskLists, e \in Enqueuers : Enqueue(e, ts)]_vars

\* A queue_tasks call met claimed records, and the store holds a running and
\* a finished record with their columns set.
C7_Witness ==
    /\ requeued
    /\ \E i, j \in DOMAIN rows :
          /\ rows[i].status = "running"
          /\ rows[j].status = "failed" /\ rows[j].error # NULL

\* C10: no step takes a running, done or failed record back to pending, or a
\* done or failed record back to running.
C10_StatusForward ==
    [][\A i \in DOMAIN rows, j \in DOMAIN rows' :
          rows'[j].task_id = rows[i].task_id =>
              /\ rows[i].status \in {"running", "done", "failed"} =>
                     rows'[j].status # "pending"
              /\ rows[i].status \in {"done", "failed"} =>
                     rows'[j].status # "running"]_vars

\* A claim that found nothing pending ran against a store that holds a
\* finished record whose list had been queued again.
C10_Witness ==
    /\ requeued
    /\ wlock \in Workers
    /\ \E i \in DOMAIN rows : rows[i].status \in {"done", "failed"}

\* C2: once every worker loop has stopped, every record the workers found
\* was returned by exactly one claim_next_task call and is done or failed;
\* none is left running.  (Stated for the records whose payload is not the
\* YAML null, and for those that are no longer pending.)
C2_AllFinishedAtDrain ==
    AllStopped =>
        \A i \in DOMAIN rows :
            (rows[i].task_info # yaml_dump(PyNone) /\ rows[i].status # "pending") =>
                /\ rows[i].status \in {"done", "failed"}
                /\ ClaimCount(rows[i].task_id) = 1

\* C3: under fair scheduling every worker loop stops for good; a worker
\* stops only when the store holds no pending record, and once nothing is
\* pending it stays so until queue_tasks inserts a row.
C3_DrainTerminates ==
    /\ <>[]AllStopped
    /\ [][\A w \in Workers :
             (pc[w] # "stopped" /\ pc'[w] = "stopped") => pending_count(rows) = 0]_vars
    /\ [][(pending_count(rows) = 0 /\ Len(rows') = Len(rows))
              => pending_count(rows') = 0]_vars

\* The workers have drained a full store: all have left, every record was
\* claimed and none is pending.
C3_Witness ==
    /\ \A w \in Workers : pc[w] = "exited"
    /\ Len(rows) = MaxRows
    /\ pending_count(rows) = 0
    /\ \A i \in DOMAIN rows : ClaimCount(rows[i].task_id) = 1

\* C4: when the user function has raised (with a message) for a task T and
\* the workers have gone on until the store was drained, every other task for
\* which the function returned ends done, with that returned value stored.
\* (Stated for tasks whose payload differs from T's.)
C4_OthersDoneWithOwnResult ==
    AllStopped =>
        \A T \in DOMAIN ran, id \in DOMAIN ran :
            ( /\ ran[T].kind = "err" /\ ran[T].error # ""
              /\ ran[id].kind = "ok"
              /\ RowOf(T).task_info # RowOf(id).task_info ) =>
                /\ RowOf(id).status = "done"
                /\ RowOf(id).result_info = ResultStr(ran[id].result)

\* C5: a task for which the user function raised ends failed, with the
\* message in `error` and no result, whatever the message is.  (Stated for
\* stores in which every payload hashes back to its task_id, once the
\* worker's finish_task has returned.)
C5_RaisedEndsFailed ==
    (\A i \in DOMAIN rows : RoundTrips(rows[i])) =>
        \A id \in DOMAIN ran :
            (ran[id].kind = "err" /\ Holders(id) = {}) =>
                /\ RowOf(id).status = "failed"
                /\ RowOf(id).error = ran[id].error
                /\ RowOf(id).result_info = NULL

\* C8: two tasks whose serialized payloads (task_info) are identical are one
\* record: no two rows hold the same payload.
C8_SamePayloadOneRecord ==
    \A i, j \in DOMAIN rows :
        rows[i].task_info = rows[j].task_info => i = j

\* C9: two tasks of a queued list whose serialized payloads differ get
\* different task_ids and are stored as two distinct records.
C9_DistinctPayloadsKept ==
    \A ts \in enqueued : \A k, l \in DOMAIN ts :
        yaml_dump(ts[k]) # yaml_dump(ts[l]) =>
            /\ _hash_task(ts[k]) # _hash_task(ts[l])
            /\ \E i, j \in DOMAIN rows :
                  /\ i # j
                  /\ rows[i].task_info = yaml_dump(ts[k])
                  /\ rows[j].task_info = yaml_dump(ts[l])

\* C11: claim_next_task returns only records that are pending when it is
\* called: a step in which a record is returned by a claim starts from a
\* state where that record is pending, so a done or failed record is never
\* returned again, also after its task list was queued again.
C11_ClaimOnlyPending ==
    [][\A i \in DOMAIN rows :
          (IF rows[i].task_id \in DOMAIN claimed' THEN claimed'[rows[i].task_id] ELSE 0)
              > ClaimCount(rows[i].task_id)
          => rows[i].status = "pending"]_vars

\* After a list was queued again, a claim found nothing to return although
\* the store holds a done and a failed record, each returned once.
C11_Witness ==
    /\ requeued
    /\ \E w \in Workers : pc[w] = "check" /\ wlock = w
    /\ \E i, j \in DOMAIN rows :
          /\ rows[i].status = "done" /\ rows[j].status = "failed"
          /\ ClaimCount(rows[i].task_id) = 1 /\ ClaimCount(rows[j].task_id) = 1

\* C16: no process holds the store's write lock between its calls: when
\* queue_tasks, claim_next_task or finish_task has returned, its transaction
\* is over.
C16_NoLockBetweenCalls == wlock = NoProc

\* C17: a worker loop stops only from the pending_count check that follows a
\* claim which returned None, and only on a count of zero; on a nonzero
\* count it goes to sleep; a claim is entered only from the sleep or from
\* the finish of an executed task.
C17_StopAndBackoff ==
    [][\A w \in Workers :
          /\ (pc[w] # "stopped" /\ pc'[w] = "stopped") =>
                 (pc[w] = "check" /\ task[w] = PyNone /\ pending_count(rows) = 0)
          /\ (pc[w] = "check" /\ pc'[w] # "check" /\ pending_count(rows) # 0) =>
                 pc'[w] = "sleep"
          /\ (pc[w] # "check" /\ pc'[w] = "check") => pc[w] = "claim"
          /\ (pc[w] # "claim" /\ pc'[w] = "claim") => pc[w] \in {"sleep", "finish"}]_vars

\* A worker sleeps in the backoff while a record is pending.
C17_Witness ==
    \E w \in Workers : pc[w] = "sleep" /\ pending_count(rows) > 0

\* C18: once a worker was killed with a claimed record in hand, no step
\* changes that record: it stays running, with the columns its claim set.
C18_KilledStaysRunning ==
    [][\A w \in Workers, i \in DOMAIN rows :
          (pc[w] = "killed" /\ rows[i].task_id = held[w] /\ rows[i].status = "running")
              => rows'[i] = rows[i]]_vars

\* The value dump_to_yaml is to write for a record: the stored result when
\* there is one, else the task payload.
RowValue(r) ==
    IF r.result_info \notin {NULL, ""} THEN yaml_safe_load(r.result_info)
    ELSE yaml_safe_load(r.task_info)

FinishedIdx(rs) == {i \in DOMAIN rs : rs[i].status \in {"done", "failed"}}

\* d lists the values of exactly the done and failed records of rs, one
\* entry per record.
IsExportOf(d, rs) ==
    \E f \in [DOMAIN d -> FinishedIdx(rs)] :
        /\ \A k, l \in DOMAIN d : f[k] = f[l] => k = l
        /\ \A i \in FinishedIdx(rs) : \E k \in DOMAIN d : f[k] = i
        /\ \A k \in DOMAIN d : d[k] = RowValue(rs[f[k]])

\* C12: when the workers have drained the store and dump_to_yaml has written
\* the result file from that store, the file has one entry per distinct task
\* payload, each the value of a done or failed record.  (Stated for stores
\* without a YAML null payload.)
C12_ExportAfterDrain ==
    ( /\ AllStopped /\ pending_count(rows) = 0 /\ rows # <<>>
      /\ xp.pc = "idle" /\ xp.written /\ xp.last = ExportData(rows)
      /\ \A i \in DOMAIN rows : rows[i].task_info # yaml_dump(PyNone) ) =>
        /\ Len(xp.last) = Cardinality({rows[i].task_info : i \in DOMAIN rows})
        /\ IsExportOf(xp.last, rows)
        /\ fs[ResultPath] = yaml_dump_list(xp.last)

\* C13: at every moment the result file is absent (no dump_to_yaml call has
\* finished yet) or holds the complete document of the last finished call;
\* a call under way does not show in it.
C13_ReaderSeesWholeFile ==
    fs[ResultPath] = IF xp.written THEN yaml_dump_list(xp.last) ELSE Absent

\* A call is half-way through writing two entries while the result file
\* holds the different contents of an earlier call.
C13_Witness ==
    /\ xp.pc = "write" /\ xp.pos = 1 /\ Len(xp.data) = 2
    /\ xp.written /\ xp.last # xp.data
    /\ fs[ResultPath] # Absent

\* The task_ids of the exported records in the order of the file.
ExportOrder(rs) ==
    LET sel == OrderByTsEnd(Completed(rs)) IN [k \in DOMAIN sel |-> sel[k].task_id]

\* C14: when the finish of a record B commits while a record A is already
\* finished, an export of the store lists A's entry before B's.
C14_CompletionOrder ==
    [][\A i, j \in DOMAIN rows :
          ( /\ i # j /\ Len(rows') = Len(rows)
            /\ i \in FinishedIdx(rows) /\ rows'[i] = rows[i]
            /\ j \notin FinishedIdx(rows) /\ j \in FinishedIdx(rows') ) =>
              \E a, b \in DOMAIN ExportOrder(rows') :
                  /\ a < b
                  /\ ExportOrder(rows')[a] = rows[i].task_id
                  /\ ExportOrder(rows')[b] = rows[j].task_id]_vars

\* C15: the data of a dump_to_yaml call is the done and failed records of the
\* one store state its SELECT ran in, it stays the same until the call ends,
\* the file put in place is the document of that data, and every finished
\* record of a store state has its finish applied in full.
C15_ExportOneSnapshot ==
    /\ [][(xp.pc = "idle" /\ xp'.pc # "idle") =>
              (rows' = rows /\ IsExportOf(xp'.data, rows))]_vars
    /\ [][(xp.pc # "idle" /\ xp'.pc # "idle") => xp'.data = xp.data]_vars
    /\ [][(xp.pc = "rename" /\ xp'.pc = "idle") =>
              fs'[ResultPath] = yaml_dump_list(xp.data)]_vars
    /\ [](\A i \in DOMAIN rows :
             IF i \in FinishedIdx(rows)
             THEN rows[i].ts_end # NullTs /\ rows[i].status = FinishStatus(rows[i].error)
             ELSE rows[i].ts_end = NullTs /\ rows[i].result_info = NULL
                  /\ rows[i].error = NULL)

\* While a call is writing its data, a finish_task of a worker has changed
\* the set of finished records.
C15_Witness ==
    /\ xp.pc \in {"write", "rename"}
    /\ Len(xp.data) = 1
    /\ Cardinality(FinishedIdx(rows)) = 2

\* The calls of run_single the current run() has started for tasks with the
\* payload of t.
CallsOf(t) ==
    {j \in DOMAIN ex.undone :
        ex.job[j] # "wait" /\ yaml_dump(ex.undone[j]) = yaml_dump(t)}

\* C19: when the user function has failed on a task, run() still ends by
\* returning, with every task of the list executed.
C19_RunSurvivesTaskFailure ==
    (ex.pc \in {"returned", "raised"} /\ \E k \in DOMAIN ex.job : ex.job[k] = "failed") =>
        /\ ex.pc = "returned"
        /\ \A k \in DOMAIN ex.job : ex.job[k] \in {"done", "failed"}

\* C20: when run() has returned from a first run over the task list, every
\* task of the list has been executed exactly once and there is one done
\* record per distinct task payload.
C20_EachTaskOnceAtReturn ==
    (ex.pc = "returned" /\ ex.tasks # <<>> /\ Len(ex.undone) = Len(ex.tasks)) =>
        /\ \A k \in DOMAIN ex.tasks : Cardinality(CallsOf(ex.tasks[k])) = 1
        /\ Cardinality(ex.done)
             = Cardinality({yaml_dump(ex.tasks[k]) : k \in DOMAIN ex.tasks})

\* C21: when run() returns without a task left to run, no call of the user
\* function has been started and the result file has been written.
C21_EmptyRunWritesResults ==
    (ex.pc = "returned" /\ ex.undone = <<>>) =>
        /\ ex.job = <<>>
        /\ fs[ResultPath] # Absent

\* C22: when run() ends by raising, the result file has been written.
C22_ExportBeforeError ==
    ex.pc = "raised" => fs[ResultPath] # Absent

\* C23: no call of the user function is started for a payload that failed
\* in an earlier run() of the same executor directory.
C23_FailedNotRunAgain ==
    \A k \in DOMAIN ex.job :
        ex.job[k] # "wait" => yaml_dump(ex.undone[k]) \notin ex.failed_before

\* C24: at any time of a run() at most one call of the user function has
\* been started for a payload.
C24_OneCallPerPayload ==
    \A k \in DOMAIN ex.undone : Cardinality(CallsOf(ex.undone[k])) <= 1

\* C26: the start of a parallel run (an executor is constructed, or the
\* command line has a task list and debug mode is off) with a missing
\* setting (no save_dir, or a task list without --task-to) ends with the
\* usage error, and then no tracking directory exists, no done marker and no
\* task record has been written, no result file exists and no call of the
\* user function has been made.
C26_UsageErrorTouchesNothing ==
    (ex.missing # "none" /\ ~ ex.debug_enabled) =>
        /\ ex.pc = "usage_error"
        /\ ~ ex.done_dir
        /\ ex.done = {}
        /\ ex.job = <<>>
        /\ ex.cli_calls = <<>>
        /\ rows = <<>>
        /\ fs[ResultPath] = Absent

\* The command line has a task list and no --task-to, debug mode is off and
\* the configuration has a save_dir: parser.error has ended the start.
C26_Witness ==
    /\ ex.pc = "usage_error"
    /\ ex.missing = "task_to"
    /\ ex.save_dir
    /\ ~ ex.debug_enabled

\* C25: a worker whose claim_next_task or finish_task raises a store-access
\* error ends its loop with that error: the step in which the call fails
\* takes the worker out of worker_loop.
C25_StoreErrorStopsWorker ==
    [][\A w \in Workers :
          ( /\ pc[w] \in {"claim", "finish"}
            /\ ~ CanWrite(w)
            /\ (pc'[w] # pc[w] \/ out'[w] # out[w]) ) => pc'[w] = "crashed"]_vars

\* C27: when the submission command has failed, the method has returned no
\* job handle, the command has been run once and every enqueued record is
\* still pending.
C27_SubmitErrorSurfaces ==
    sb.pc = "error" =>
        /\ sb.handles = <<>>
        /\ sb.job_id = NULL
        /\ sb.submissions = 1
        /\ \A i \in DOMAIN rows : rows[i].status = "pending"

C27_Witness ==
    /\ sb.pc = "error"
    /\ sb.op = "map_array"
    /\ Len(sb.data) = 2
    /\ rows # <<>>

\* C28: after map_array has returned, the submission command has been run
\* once, there is one handle per argument set, the job identifiers of the
\* handles are pairwise distinct, and every array element that has run has
\* executed the argument set of its index.
C28_ArrayElementRunsItsArgs ==
    (sb.op = "map_array" /\ sb.pc = "submitted") =>
        /\ sb.submissions = 1
        /\ Len(sb.handles) = Len(sb.data)
        /\ \A i, j \in DOMAIN sb.handles : i # j => sb.handles[i] # sb.handles[j]
        /\ \A k \in DOMAIN sb.executed :
               sb.executed[k] # NotRun => sb.executed[k] = sb.data[k]

\* C29: every record has the columns its status calls for.
C29_ColumnsByStatus ==
    \A i \in DOMAIN rows :
        LET r == rows[i] IN
        CASE r.status = "pending" ->
                /\ r.node = NULL /\ r.ts_start = NullTs /\ r.ts_end = NullTs
                /\ r.result_info = NULL /\ r.error = NULL
          [] r.status = "running" ->
                /\ r.node # NULL /\ r.ts_start # NullTs /\ r.ts_end = NullTs
                /\ r.result_info = NULL /\ r.error = NULL
          [] r.status = "done" ->
                r.ts_start # NullTs /\ r.ts_end # NullTs /\ r.error = NULL
          [] OTHER ->
                /\ r.ts_start # NullTs /\ r.ts_end # NullTs
                /\ r.error # NULL /\ r.result_info = NULL

\* C30: queue_tasks on an empty store leaves as many pending records as the
\* list has distinct payloads; a claim that returns a task takes the count
\* of pending records down by one; a finish_task leaves it as it is.
C30_PendingCountSteps ==
    [][/\ (rows = <<>> /\ rows' # <<>>) =>
              \E ts \in enqueued' :
                  /\ rows' = QueueTasks(<<>>, ts)
                  /\ pending_count(rows')
                       = Cardinality({yaml_dump(ts[k]) : k \in DOMAIN ts})
       /\ \A w \in Workers :
             /\ (pc[w] = "claim" /\ held'[w] # NULL) =>
                    pending_count(rows') = pending_count(rows) - 1
             /\ (pc[w] = "finish" /\ pc'[w] = "claim") =>
                    pending_count(rows') = pending_count(rows)
       /\ (\A w \in Workers : pc'[w] \in {"stopped", "exited"}) =>
              pending_count(rows') = 0]_vars

\* C33: in Slurm mode, once the scheduler has the jobs run() returns,
\* whether or not any task is ever run, and its return changes no task
\* state and no marker.
C33_RemoteRunDoesNotWait ==
    /\ (ex.pc = "submitting") ~> (ex.pc = "returned")
    /\ [][(ex.pc = "submitting" /\ ex'.pc = "returned") =>
             /\ ex'.job = ex.job
             /\ ex'.earlier = ex.earlier
             /\ ex'.done = ex.done]_vars

\* run() has returned from its first submission and no task of a list of
\* three has completed.
C33_Witness ==
    /\ ex.mode = "slurm"
    /\ ex.pc = "returned"
    /\ ex.submitted = 1
    /\ Len(ex.undone) = 3
    /\ \A k \in DOMAIN ex.job : ex.job[k] = "wait"
    /\ ex.done = {}

\* The (job, rank) pairs of the last submission.
Ranks == (DOMAIN ex.chunks) \X (0..(ex.world_size - 1))

\* The pairs whose slice holds list position k, given every pair's slice.
Owners(slices, k) ==
    {p \in Ranks : \E m \in DOMAIN slices[p] : slices[p][m] = k}

\* The pairs that have run list position k.
RanBy(slices, k) ==
    {p \in Ranks : \E m \in 1..ex.prog[p[1]][p[2] + 1] : slices[p][m] = k}

\* C34: in an array submission of run() there are at most
\* array_parallelism chunks, none is empty, every list position of the
\* tasks to run is in the slice of exactly one (job, rank) pair, and no
\* position has been run by two pairs of the submission.
C34_ChunksAndSlicesPartition ==
    (ex.mode = "slurm" /\ ex.array_parallelism > 1 /\ ex.chunks # <<>>) =>
        LET slices == [p \in Ranks |-> my_tasks(ex.chunks[p[1]], p[2], ex.world_size)]
        IN  /\ Len(ex.chunks) <= ex.array_parallelism
            /\ \A j \in DOMAIN ex.chunks : ex.chunks[j] # <<>>
            /\ \A k \in DOMAIN ex.undone :
                   /\ Cardinality(Owners(slices, k)) = 1
                   /\ Cardinality(RanBy(slices, k)) <= 1
                   /\ ex.job[k] # "wait" <=> RanBy(slices, k) # {}

\* Three tasks in two chunks, two ranks per job, every task run.
C34_Witness ==
    /\ ex.mode = "slurm"
    /\ ex.pc = "returned"
    /\ Len(ex.undone) = 3
    /\ Len(ex.chunks) = 2
    /\ ex.world_size = 2
    /\ \A k \in DOMAIN ex.job : ex.job[k] = "done"

\* C35: no call of the user function is started for a task whose execution
\* succeeded in an earlier run() on the same save_dir, and the marker of
\* such a task is present whenever a later run() has been entered.
C35_DoneNotRunAgain ==
    /\ \A k \in DOMAIN ex.job :
           ex.job[k] # "wait" => ex.undone[k] \notin ex.done_before
    /\ \A k \in DOMAIN ex.tasks :
           ex.tasks[k] \in ex.done_before => _get_task_id(ex.tasks[k]) \in ex.done

\* C31: the payload of every record hashes back to the record's task_id, and
\* a finish_task on a claimed payload moves the claimed record from running
\* to done or failed and changes no other record.
C31_FinishHitsClaimedRecord ==
    [][/\ \A i \in DOMAIN rows' : RoundTrips(rows'[i])
       /\ \A w \in Workers :
             (pc[w] = "finish" /\ pc'[w] = "claim") =>
                 \A i \in DOMAIN rows :
                     IF rows[i].task_id = held[w]
                     THEN /\ rows[i].status = "running"
                          /\ rows'[i].status \in {"done", "failed"}
                     ELSE rows'[i] = rows[i]]_vars

\* C32: a record is failed only if the user function raised for its task.
\* (Stated for stores in which every payload hashes back to its task_id.)
C32_FailedOnlyIfRaised ==
    (\A i \in DOMAIN rows : RoundTrips(rows[i])) =>
        \A i \in DOMAIN rows :
            rows[i].status = "failed" =>
                /\ rows[i].task_id \in DOMAIN ran
                /\ ran[rows[i].task_id].kind = "err"

\* C36: when every track_task call has returned, the .tasks file lists every
\* tracked task, in insertion order.
C36_TasksFileComplete ==
    (tk.table # <<>> /\ \A t \in Trackers : tk.p[t].pc = "idle") =>
        tk.file = yaml_dump_list([i \in DOMAIN tk.table |-> yaml_safe_load(tk.table[i])])
====
